---- MODULE Spec2Model ----
(***************************************************************************)
(* A model of the ez-ipc remote-peer engine (ezipc/remote/__init__.py):    *)
(* two peers joined by a pair of FIFO byte streams, each with its read     *)
(* loop, helper tasks, pending-call registry (futures), handler tables and *)
(* secure-channel state.                                                   *)
(*                                                                         *)
(* Two specifications share the actions:                                   *)
(*   Spec     peer 1 is the engine under study; the other end of its       *)
(*            connection is an arbitrary remote host (EnvSend, LoopEnd).   *)
(*   SpecRSA  peers 1 and 2 are both engines; peer 1 runs enable_rsa while *)
(*            both sides keep exchanging ordinary traffic.                 *)
(***************************************************************************)
EXTENDS Integers, Sequences, FiniteSets, TLC

\* ------------------------------------------------------------------ bounds
\* API calls made by user tasks on one peer.
MaxCalls == 2
\* Lines the remote host of Spec puts on the wire.
MaxInbound == 2
\* Correlation ids the minting may draw from.
MaxId == 2
\* Helper tasks per peer (helper_count).
NumHelpers == 2

Peers == {1, 2}
Other(p) == 3 - p
Helpers == 1 .. NumHelpers
Ids == 1 .. MaxId
\* enable_rsa issues two requests of its own, beside the user's calls.
Handles == 1 .. (MaxCalls + 2)

\* ---------------------------------------------------------------- envelopes
Absent == "absent"
NoMethod == "-"
NoId == -1
\* An id that is present but falsy in Python: 0 or "".
FalsyId == -2
NoError == 0
ParseErrorId == 0

method_not_found == -32601
parse_error == -32700
invalid_request == -32600
EncryptionUnavailable == 92
CannotActivate == 1

Msg(method, id, params, result, error) ==
    [form |-> "json", method |-> method, id |-> id, params |-> params,
     result |-> result, error |-> error]

make_request(meth, params, mid) == Msg(meth, mid, params, Absent, NoError)
make_notif(meth, params) == Msg(meth, NoId, params, Absent, NoError)
make_response_res(mid, res) == Msg(NoMethod, mid, Absent, res, NoError)
make_response_err(mid, code) == Msg(NoMethod, mid, Absent, Absent, code)

\* A frame that is not JSON text (ciphertext read by a plaintext reader).
Garbage(form) ==
    [form |-> form, method |-> NoMethod, id |-> NoId, params |-> Absent,
     result |-> Absent, error |-> NoError]

\* JRPC.check: the envelope classifier.
JRPC_check(d) ==
    IF d.method # NoMethod /\ d.id # NoId THEN "REQUEST"
    ELSE IF d.method # NoMethod /\ d.id = NoId THEN "NOTIF"
    ELSE IF d.id # NoId /\ ((d.result # Absent) # (d.error # NoError))
         THEN "RESPONSE"
    ELSE "INVALID"

\* data["params"]["reason"] or "Connection terminated by peer.":
\* a missing "params" or "reason" key raises KeyError, a list TypeError.
TermReason(params) ==
    IF params \in {"null", "bye"} THEN "ConnectionResetError"
    ELSE IF params \in {Absent, "noreason"} THEN "KeyError"
    ELSE "TypeError"

\* ------------------------------------------------------------- dictionaries
EmptyDict == [k \in {} |-> 0]
Put(d, k, v) == (k :> v) @@ d
Pop(d, k) == [x \in (DOMAIN d) \ {k} |-> d[x]]

\* hooks = local.copy(); hooks.update(inherited)
MergedHooks(local, inherited) == inherited @@ local

BuiltinHooks ==
    ("PING" :> "cb_ping") @@ ("RSA.EXCH" :> "cb_rsa_exchange")
        @@ ("RSA.CONF" :> "cb_rsa_confirm")

\* -------------------------------------------------------------------- state
VARIABLES
    open,                \* connection.open
    box,                 \* connection.box: encryption is active
    peerKey,             \* connection.add_key has stored the peer's key
    canEncrypt,          \* connection.can_encrypt
    wire,                \* wire[p]: frames written to p, not yet read by p
    lines,               \* Remote.lines
    futures,             \* Remote.futures: id -> handle
    hs,                  \* the Futures made by request, by handle
    total_sent,          \* Remote.total_sent
    total_recv,          \* Remote.total_recv
    hooks_request,       \* Remote.hooks_request
    hooks_request_inher, \* Remote.hooks_request_inher
    hooks_notif,         \* Remote.hooks_notif
    hooks_notif_inher,   \* Remote.hooks_notif_inher
    helpers,             \* run_helpers: the helper tasks and their handler task
    lpc,                 \* Remote.loop: "run" until it has returned
    epc,                 \* enable_rsa's position
    group,               \* the peer-group set
    calls,               \* API calls made so far
    injected,            \* lines the remote host of Spec has written
    last,                \* the last API call and how it ended
    server               \* the Server that accepts peers

vars ==
    <<open, box, peerKey, canEncrypt, wire, lines, futures, hs, total_sent,
      total_recv, hooks_request, hooks_request_inher, hooks_notif,
      hooks_notif_inher, helpers, lpc, epc, group, calls, injected, last,
      server>>

connVars == <<open, box, peerKey, canEncrypt, group>>
hookVars ==
    <<hooks_request, hooks_request_inher, hooks_notif, hooks_notif_inher>>

NoLine == Garbage("none")
Idle == [st |-> "idle", h |-> "", d |-> NoLine]
Unused ==
    [st |-> "unused", val |-> Absent, code |-> NoError, wait |-> "raw",
     id |-> NoId, params |-> Absent]
NoCall ==
    [p |-> 0, op |-> "none", open |-> TRUE, raised |-> FALSE, ret |-> Absent]
Counter == [notif |-> 0, request |-> 0, response |-> 0]

\* The Server after __init__ and start()'s _add_hooks, which hooks TIME.
\* conn[p] is open_connection's position for peer p, term is terminate's
\* position, with the size of remotes its `for` started with and the
\* remotes it has visited.
NewServer ==
    [hooks_request |-> ("TIME" :> "cb_time"), hooks_notif |-> EmptyDict,
     remotes |-> {}, total_clients |-> 0,
     total_sent |-> Counter, total_recv |-> Counter,
     conn |-> [p \in Peers |-> "none"],
     term |-> "off", size |-> 0, seen |-> {}]

\* Peer p is a Remote made by Server.open_connection.
Accepted(p) == server.conn[p] # "none"

\* The far end of an accepted peer's connection: a client of the Server.
Client(p) == p + 2
Clients == {Client(p) : p \in Peers}

\* The wire peer p writes to: its client's for an accepted peer, else the
\* other peer's.
Out(p) == IF Accepted(p) THEN Client(p) ELSE Other(p)

\* The state after Remote.__init__ on both ends of an open connection.
InitCommon ==
    /\ open = [p \in Peers |-> TRUE]
    /\ box = [p \in Peers |-> FALSE]
    /\ peerKey = [p \in Peers |-> FALSE]
    /\ wire = [p \in Peers \cup Clients |-> <<>>]
    /\ lines = [p \in Peers |-> <<>>]
    /\ futures = [p \in Peers |-> EmptyDict]
    /\ hs = [p \in Peers |-> [h \in Handles |-> Unused]]
    /\ total_sent = [p \in Peers |-> Counter]
    /\ total_recv = [p \in Peers |-> Counter]
    /\ hooks_request = [p \in Peers |-> BuiltinHooks]
    /\ hooks_request_inher = [p \in Peers |-> EmptyDict]
    /\ hooks_notif = [p \in Peers |-> EmptyDict]
    /\ hooks_notif_inher = [p \in Peers |-> EmptyDict]
    /\ helpers = [p \in Peers |-> [w \in Helpers |-> Idle]]
    /\ epc = [p \in Peers |-> "off"]
    /\ group = Peers
    /\ calls = [p \in Peers |-> 0]
    /\ injected = 0
    /\ last = NoCall
    /\ server = NewServer

\* Spec: only peer 1 runs; peer 2 stands for a remote host that is not ours.
Init ==
    /\ InitCommon
    /\ canEncrypt = [p \in Peers |-> FALSE]
    /\ lpc = [p \in Peers |-> IF p = 1 THEN "run" ELSE "off"]


\* ------------------------------------------------------------- connection
\* Connection.write: the frame is sealed when encryption is active.
Frame(p, m) == [enc |-> box[p], msg |-> m]

\* Remote.send: a no-op on a closed peer; `ok` is whether the write succeeds
\* (a failed write raises and puts nothing on the wire).
Sent(p, m, ok) ==
    IF open[p] /\ ok THEN [wire EXCEPT ![Out(p)] = Append(@, Frame(p, m))]
    ELSE wire

\* Connection.can_activate: both keys present, not yet active.
can_activate(p) == canEncrypt[p] /\ peerKey[p] /\ ~box[p]

CloseConn_Reopen(p) ==
    /\ open' = [open EXCEPT ![p] = ~@]
    /\ group' = IF p \in group THEN group \ {p} ELSE group

\* Remote.close: connection.close(), then leave the peer group.
CloseConn(p) ==
    /\ open' = [open EXCEPT ![p] = FALSE]
    /\ group' = IF p \in group THEN group \ {p} ELSE group

RespondCount_Always(p) == [total_sent EXCEPT ![p].response = @ + 1]

\* Remote.respond: counts and sends on an open peer, swallows a failed send.
RespondCount(p) ==
    IF open[p] THEN [total_sent EXCEPT ![p].response = @ + 1] ELSE total_sent

\* ----------------------------------------------------------------- request
MintIds_Any(p) == Ids

\* make_request's id: a fresh one, never an id that is still in the registry.
MintIds(p) == Ids \ DOMAIN futures[p]

\* Future.done()
Done(fut) == fut.st \notin {"unused", "pending"}

Used(p) == {h \in Handles : hs[p][h].st # "unused"}
NextHandle(p) == Cardinality(Used(p)) + 1

\* A Future; `id` notes the correlation id it was registered under and
\* `params` the params its request was called with.
Future(st, val, code, wait, mid) ==
    [st |-> st, val |-> val, code |-> code, wait |-> wait, id |-> mid,
     params |-> Absent]

\* Remote.request: make_request(meth, **params) for a dict,
\* make_request(meth, *params) for a list, make_request(meth) otherwise. An
\* empty dict and an empty list unpack to no arguments at all, the same call
\* as for no params.
Splat(params) == IF params \in {"[]", "{}"} THEN Absent ELSE params

RequestClosed_Counted(p, h) ==
    /\ hs' = [hs EXCEPT ![p][h] =
                 Future("reset", Absent, NoError, "raw", NoId)]
    /\ total_sent' = [total_sent EXCEPT ![p].request = @ + 1]
    /\ UNCHANGED <<futures, wire>>

\* Remote.request on a closed peer: the Future is failed at once.
RequestClosed(p, h) ==
    /\ hs' = [hs EXCEPT ![p][h] =
                 Future("reset", Absent, NoError, "raw", NoId)]
    /\ UNCHANGED <<futures, total_sent, wire>>

\* Remote.request on an open peer: count, mint, register, send.
RequestOpen(p, h, mid, meth, params, ok, wait) ==
    /\ total_sent' = [total_sent EXCEPT ![p].request = @ + 1]
    /\ futures' = [futures EXCEPT ![p] = Put(@, mid, h)]
    /\ hs' = [hs EXCEPT ![p][h] =
                 [Future("pending", Absent, NoError, wait, mid)
                     EXCEPT !.params = params]]
    /\ wire' = Sent(p, make_request(meth, Splat(params), mid), ok)

DoRequest(p, meth, params, ok, wait) ==
    LET h == NextHandle(p) IN
    /\ h \in Handles
    /\ IF ~open[p] THEN RequestClosed(p, h)
       ELSE \E mid \in MintIds(p) :
                RequestOpen(p, h, mid, meth, params, ok, wait)

CanCall(p) == calls[p] < MaxCalls
Called(p, op, raised, ret) ==
    /\ calls' = [calls EXCEPT ![p] = @ + 1]
    /\ last' = [p |-> p, op |-> op, open |-> open[p], raised |-> raised,
                ret |-> ret]

\* await remote.request(meth, params)
Request(p, meth, params, ok) ==
    /\ CanCall(p)
    /\ DoRequest(p, meth, params, ok, "raw")
    /\ Called(p, "request", FALSE, "future")
    /\ UNCHANGED <<connVars, lines, total_recv, hookVars, helpers, lpc, epc,
                   injected>>
    /\ UNCHANGED server

\* await remote.request_wait(meth, params, default, raise_remote_err=rre):
\* up to the point where it waits for the Future.
RequestWait(p, meth, params, ok, rre) ==
    /\ CanCall(p)
    /\ IF open[p]
       THEN /\ DoRequest(p, meth, params, ok,
                         IF rre THEN "waiting_raise" ELSE "waiting")
            /\ Called(p, "request_wait", FALSE, "waiting")
       ELSE /\ UNCHANGED <<futures, hs, total_sent, wire>>
            /\ Called(p, "request_wait", FALSE, "None")
    /\ UNCHANGED <<connVars, lines, total_recv, hookVars, helpers, lpc, epc,
                   injected>>
    /\ UNCHANGED server

Waiting(p, h) == hs[p][h].wait \in {"waiting", "waiting_raise"}

\* request_wait: wait_for's timeout expires; it cancels the Future and
\* request_wait returns the default (the Future's `wait` notes what
\* request_wait returned).
WaitTimeout(p, h) ==
    /\ Waiting(p, h)
    /\ hs[p][h].st = "pending"
    /\ hs' = [hs EXCEPT ![p][h].st = "cancelled", ![p][h].wait = "default"]
    /\ UNCHANGED <<connVars, wire, lines, futures, total_sent, total_recv,
                   hookVars, helpers, lpc, epc, calls, injected, last>>
    /\ UNCHANGED server

WaitOutcome_Default(fut) ==
    IF fut.st = "result" THEN "result" ELSE "default"

\* request_wait once the Future is fulfilled: `return future.result()`, and
\* on a RemoteError `raise e` with raise_remote_err, else `return default`.
WaitOutcome(fut) ==
    IF fut.st = "result" THEN "result"
    ELSE IF fut.wait = "waiting_raise" THEN "raised"
    ELSE "default"

\* request_wait: the Future was fulfilled; return its result, or on a
\* RemoteError the default, or raise it.
WaitReturn(p, h) ==
    /\ Waiting(p, h)
    /\ hs[p][h].st \in {"result", "error"}
    /\ hs' = [hs EXCEPT ![p][h].wait = WaitOutcome(hs[p][h])]
    /\ UNCHANGED <<connVars, wire, lines, futures, total_sent, total_recv,
                   hookVars, helpers, lpc, epc, calls, injected, last>>
    /\ UNCHANGED server

\* ------------------------------------------------------ notif, respond, send
\* await remote.notif(meth, params, nohandle)
Notif(p, meth, params, ok, nohandle) ==
    /\ CanCall(p)
    /\ total_sent' = IF open[p] THEN [total_sent EXCEPT ![p].notif = @ + 1]
                     ELSE total_sent
    /\ wire' = Sent(p, make_notif(meth, params), ok)
    /\ Called(p, "notif", open[p] /\ ~ok /\ nohandle, "None")
    /\ UNCHANGED <<connVars, lines, futures, hs, total_recv, hookVars,
                   helpers, lpc, epc, injected>>
    /\ UNCHANGED server

\* await remote.respond(mid, res=res)
Respond(p, mid, res, ok) ==
    /\ CanCall(p)
    /\ total_sent' = RespondCount(p)
    /\ wire' = Sent(p, make_response_res(mid, res), ok)
    /\ Called(p, "respond", FALSE, "None")
    /\ UNCHANGED <<connVars, lines, futures, hs, total_recv, hookVars,
                   helpers, lpc, epc, injected>>
    /\ UNCHANGED server

\* await remote.send(data)
Send(p, m, ok) ==
    /\ CanCall(p)
    /\ wire' = Sent(p, m, ok)
    /\ Called(p, "send", open[p] /\ ~ok, "None")
    /\ UNCHANGED <<connVars, lines, futures, hs, total_sent, total_recv,
                   hookVars, helpers, lpc, epc, injected>>
    /\ UNCHANGED server

ClosedAfterTerm_IfSent(p, ok) ==
    IF ok THEN CloseConn(p) ELSE UNCHANGED <<open, group>>

\* terminate's `finally: self.close()`, whether the TERM was sent or not.
ClosedAfterTerm(p, ok) == CloseConn(p)

\* await remote.terminate(reason)
Terminate(p, reason, ok) ==
    /\ CanCall(p)
    /\ IF open[p]
       THEN /\ total_sent' = [total_sent EXCEPT ![p].notif = @ + 1]
            /\ wire' = Sent(p, make_notif("TERM", reason), ok)
            /\ ClosedAfterTerm(p, ok)
       ELSE UNCHANGED <<total_sent, wire, open, group>>
    /\ Called(p, "terminate", FALSE, "None")
    /\ UNCHANGED <<box, peerKey, canEncrypt, lines, futures, hs, total_recv,
                   hookVars, helpers, lpc, epc, injected>>
    /\ UNCHANGED server

\* The peers whose hooks_request is the dict object peer p's is: p alone
\* for a Remote of its own, and every accepted peer for an accepted one,
\* whose attribute open_connection has set to the Server's dict.
Aliases(p) == IF Accepted(p) THEN {q \in Peers : Accepted(q)} ELSE {p}

\* remote.hook_request(method, func): self.hooks_request[method] = func
HookRequest(p, method, func) ==
    /\ CanCall(p)
    /\ hooks_request' =
          [q \in Peers |->
              IF q \in Aliases(p) THEN Put(hooks_request[q], method, func)
              ELSE hooks_request[q]]
    /\ server' = IF Accepted(p)
                 THEN [server EXCEPT !.hooks_request = Put(@, method, func)]
                 ELSE server
    /\ Called(p, "hook_request", FALSE, "None")
    /\ UNCHANGED <<connVars, wire, lines, futures, hs, total_sent, total_recv,
                   hooks_request_inher, hooks_notif, hooks_notif_inher,
                   helpers, lpc, epc, injected>>

\* remote.hook_notif(method, func)
HookNotif(p, method, func) ==
    /\ CanCall(p)
    /\ hooks_notif' = [hooks_notif EXCEPT ![p] = Put(@, method, func)]
    /\ Called(p, "hook_notif", FALSE, "None")
    /\ UNCHANGED <<connVars, wire, lines, futures, hs, total_sent, total_recv,
                   hooks_request, hooks_request_inher, hooks_notif_inher,
                   helpers, lpc, epc, injected>>
    /\ UNCHANGED server

\* The owner of the accept loop installs a cohort-wide request handler.
InheritRequest(p, method, func) ==
    /\ CanCall(p)
    /\ hooks_request_inher' =
           [hooks_request_inher EXCEPT ![p] = Put(@, method, func)]
    /\ Called(p, "inherit_request", FALSE, "None")
    /\ UNCHANGED <<connVars, wire, lines, futures, hs, total_sent, total_recv,
                   hooks_request, hooks_notif, hooks_notif_inher,
                   helpers, lpc, epc, injected>>
    /\ UNCHANGED server

\* The owner of the accept loop installs a cohort-wide notification handler.
InheritNotif(p, method, func) ==
    /\ CanCall(p)
    /\ hooks_notif_inher' =
           [hooks_notif_inher EXCEPT ![p] = Put(@, method, func)]
    /\ Called(p, "inherit_notif", FALSE, "None")
    /\ UNCHANGED <<connVars, wire, lines, futures, hs, total_sent, total_recv,
                   hooks_request, hooks_request_inher, hooks_notif,
                   helpers, lpc, epc, injected>>
    /\ UNCHANGED server


\* ---------------------------------------------------------------- read loop
\* Connection.read under `async for item in self.connection`: a sealed frame
\* opens only when encryption is active; a plaintext frame then fails to
\* decrypt (an Exception item), and ciphertext read in plaintext mode is a
\* line that is not JSON.
ReadItems(p, f) ==
    IF box[p] = f.enc THEN {f.msg}
    ELSE IF box[p] THEN {}
    ELSE {Garbage("notjson"), Garbage("notutf8")}

\* Remote.loop, one iteration: queue the item, or drop a failed decryption.
LoopRead(p) ==
    /\ lpc[p] = "run"
    /\ open[p]
    /\ wire[p] # <<>>
    /\ wire' = [wire EXCEPT ![p] = Tail(@)]
    /\ LET items == ReadItems(p, Head(wire[p])) IN
       IF items = {} THEN UNCHANGED lines
       ELSE \E item \in items : lines' = [lines EXCEPT ![p] = Append(@, item)]
    /\ UNCHANGED <<connVars, futures, hs, total_sent, total_recv, hookVars,
                   helpers, lpc, epc, calls, injected, last>>
    /\ UNCHANGED server

\* run_helpers' finally: every helper, and the handler task it awaits, is
\* cancelled.
Cancelled == [st |-> "cancelled", h |-> "", d |-> NoLine]

StoppedHelpers_Left(hp) == hp

\* run_helpers cancelled by loop's finally: `g = gather(*helpers);
\* g.cancel(); await g` leaves no helper of the pool running.
StoppedHelpers(hp) == [w \in Helpers |-> Cancelled]

\* Remote.loop leaves its `async for` (EOF, connection error, incomplete
\* read, cancellation): close the peer, cancel and await the supervisor.
LoopEnd(p) ==
    /\ lpc[p] = "run"
    /\ lpc' = [lpc EXCEPT ![p] = "done"]
    /\ CloseConn(p)
    /\ helpers' = [helpers EXCEPT ![p] = StoppedHelpers(@)]
    /\ UNCHANGED <<box, peerKey, canEncrypt, wire, lines, futures, hs,
                   total_sent, total_recv, hookVars, epc, calls, injected,
                   last>>
    /\ UNCHANGED server

\* ------------------------------------------------------------ process_line
\* _helper has taken the line at the head of the queue.
Taking(p, w) == helpers[p][w].st = "idle" /\ lines[p] # <<>>
Line(p) == Head(lines[p])
Taken(p) == lines' = [lines EXCEPT ![p] = Tail(@)]
Hooks(p, kind) ==
    IF kind = "REQUEST"
    THEN MergedHooks(hooks_request[p], hooks_request_inher[p])
    ELSE MergedHooks(hooks_notif[p], hooks_notif_inher[p])

PoppedFutures_Kept(f, mid) == f

\* process_line, RESPONSE: the registry after the response.
PoppedFutures(f, mid) == IF mid \in DOMAIN f THEN Pop(f, mid) ELSE f

Fulfilled_Late(fut, d) ==
    IF d.error # NoError
    THEN [fut EXCEPT !.st = "error", !.code = d.error]
    ELSE [fut EXCEPT !.st = "result", !.val = d.result]

\* process_line, RESPONSE: the Future after the response; a cancelled or
\* finished Future is left as it is.
Fulfilled(fut, d) ==
    IF fut.st # "pending" THEN fut
    ELSE IF d.error # NoError
         THEN [fut EXCEPT !.st = "error", !.code = d.error]
    ELSE [fut EXCEPT !.st = "result", !.val = d.result]

Received_Not(p, kind) == total_recv

\* process_line: self.total_recv[kind] += 1
Received(p, kind) == [total_recv EXCEPT ![p][kind] = @ + 1]

HelperResponse(p, w) ==
    /\ Taking(p, w)
    /\ Line(p).form = "json"
    /\ JRPC_check(Line(p)) = "RESPONSE"
    /\ Taken(p)
    /\ total_recv' = Received(p, "response")
    /\ LET mid == Line(p).id IN
       /\ futures' = [futures EXCEPT ![p] = PoppedFutures(@, mid)]
       /\ hs' = IF mid \in DOMAIN futures[p]
                THEN [hs EXCEPT ![p][futures[p][mid]] = Fulfilled(@, Line(p))]
                ELSE hs
    /\ UNCHANGED <<connVars, wire, total_sent, hookVars, helpers, lpc, epc,
                   calls, injected, last>>
    /\ UNCHANGED server

\* process_line, REQUEST with a hook: the handler becomes a task the helper
\* then gathers.
HelperRequest(p, w) ==
    /\ Taking(p, w)
    /\ Line(p).form = "json"
    /\ JRPC_check(Line(p)) = "REQUEST"
    /\ Line(p).method \in DOMAIN Hooks(p, "REQUEST")
    /\ Taken(p)
    /\ total_recv' = Received(p, "request")
    /\ helpers' = [helpers EXCEPT ![p][w] =
                      [st |-> "gather",
                       h |-> Hooks(p, "REQUEST")[Line(p).method],
                       d |-> Line(p)]]
    /\ UNCHANGED <<connVars, wire, futures, hs, total_sent, hookVars, lpc,
                   epc, calls, injected, last>>
    /\ UNCHANGED server

UnknownResponse_Parse(d) == make_response_err(d.id, parse_error)

\* process_line, REQUEST without a hook: the error response, to the
\* request's id.
UnknownResponse(d) == make_response_err(d.id, method_not_found)

\* process_line, REQUEST without a hook: respond method_not_found.
HelperRequestUnknown(p, w, ok) ==
    /\ Taking(p, w)
    /\ Line(p).form = "json"
    /\ JRPC_check(Line(p)) = "REQUEST"
    /\ Line(p).method \notin DOMAIN Hooks(p, "REQUEST")
    /\ Taken(p)
    /\ total_recv' = Received(p, "request")
    /\ total_sent' = RespondCount(p)
    /\ wire' = Sent(p, UnknownResponse(Line(p)), ok)
    /\ UNCHANGED <<connVars, futures, hs, hookVars, helpers, lpc, epc, calls,
                   injected, last>>
    /\ UNCHANGED server

\* process_line, NOTIFICATION other than TERM: run its hook, if any.
HelperNotif(p, w) ==
    /\ Taking(p, w)
    /\ Line(p).form = "json"
    /\ JRPC_check(Line(p)) = "NOTIF"
    /\ Line(p).method # "TERM"
    /\ Taken(p)
    /\ total_recv' = Received(p, "notif")
    /\ helpers' = IF Line(p).method \in DOMAIN Hooks(p, "NOTIF")
                  THEN [helpers EXCEPT ![p][w] =
                           [st |-> "gather",
                            h |-> Hooks(p, "NOTIF")[Line(p).method],
                            d |-> Line(p)]]
                  ELSE helpers
    /\ UNCHANGED <<connVars, wire, futures, hs, total_sent, hookVars, lpc,
                   epc, calls, injected, last>>
    /\ UNCHANGED server

Dead == [st |-> "dead", h |-> "", d |-> NoLine]

Died_All(p, w) == [helpers EXCEPT ![p] = [x \in Helpers |-> Dead]]

\* An exception that _helper does not catch ends that helper task; the
\* others run on (run_helpers gathers without cancelling them).
Died(p, w) == [helpers EXCEPT ![p][w] = Dead]

\* process_line, NOTIFICATION TERM: raise ConnectionResetError with the
\* reason, which _helper answers by closing the peer; an exception that is
\* no ConnectionError (the reason lookup failing) ends the helper instead.
HelperTerm(p, w) ==
    /\ Taking(p, w)
    /\ Line(p).form = "json"
    /\ JRPC_check(Line(p)) = "NOTIF"
    /\ Line(p).method = "TERM"
    /\ Taken(p)
    /\ total_recv' = Received(p, "notif")
    /\ IF TermReason(Line(p).params) = "ConnectionResetError"
       THEN /\ IF open[p] THEN CloseConn(p) ELSE UNCHANGED <<open, group>>
            /\ UNCHANGED helpers
       ELSE /\ helpers' = Died(p, w)
            /\ UNCHANGED <<open, group>>
    /\ UNCHANGED <<box, peerKey, canEncrypt, wire, futures, hs, total_sent,
                   hookVars, lpc, epc, calls, injected, last>>
    /\ UNCHANGED server

\* process_line, `if mid:` with mid = data.get("id"): an absent, null, zero
\* or empty id is not answered.
Truthy(mid) == mid \notin {NoId, FalsyId}

\* process_line, INVALID: respond invalid_request when an id was found.
HelperInvalid(p, w, ok) ==
    /\ Taking(p, w)
    /\ Line(p).form = "json"
    /\ JRPC_check(Line(p)) = "INVALID"
    /\ Taken(p)
    /\ IF Truthy(Line(p).id)
       THEN /\ total_sent' = RespondCount(p)
            /\ wire' = Sent(p, make_response_err(Line(p).id, invalid_request),
                            ok)
       ELSE UNCHANGED <<total_sent, wire>>
    /\ UNCHANGED <<connVars, futures, hs, total_recv, hookVars, helpers, lpc,
                   epc, calls, injected, last>>
    /\ UNCHANGED server

\* process_line, loads fails: a JSONDecodeError is answered with parse_error
\* to id "0", a UnicodeDecodeError is dropped.
HelperBadJson(p, w, ok) ==
    /\ Taking(p, w)
    /\ Line(p).form \in {"notjson", "notutf8"}
    /\ Taken(p)
    /\ IF Line(p).form = "notjson"
       THEN /\ total_sent' = RespondCount(p)
            /\ wire' = Sent(p, make_response_err(ParseErrorId, parse_error),
                            ok)
       ELSE UNCHANGED <<total_sent, wire>>
    /\ UNCHANGED <<connVars, futures, hs, total_recv, hookVars, helpers, lpc,
                   epc, calls, injected, last>>
    /\ UNCHANGED server

\* process_line, a line that is JSON but no object (a list, a number):
\* data.get raises AttributeError, which _helper does not catch.
HelperNotObject(p, w) ==
    /\ Taking(p, w)
    /\ Line(p).form = "notobject"
    /\ Taken(p)
    /\ helpers' = Died(p, w)
    /\ UNCHANGED <<connVars, wire, futures, hs, total_sent, total_recv,
                   hookVars, lpc, epc, calls, injected, last>>
    /\ UNCHANGED server

Ended == [st |-> "ended", h |-> "", d |-> NoLine]

\* _helper, `while line := await self.lines.get()`: a falsy line ends the
\* loop and the helper task returns without an exception.
HelperEnd(p, w) ==
    /\ Taking(p, w)
    /\ Line(p).form = "empty"
    /\ Taken(p)
    /\ helpers' = [helpers EXCEPT ![p][w] = Ended]
    /\ UNCHANGED <<connVars, wire, futures, hs, total_sent, total_recv,
                   hookVars, lpc, epc, calls, injected, last>>
    /\ UNCHANGED server

\* run_helpers: gather(*helpers) raises when a helper has raised, and
\* revive then replaces every helper that is done; a helper that returned
\* raises nothing, and gather goes on waiting for the others.
Revive(p) ==
    /\ \E w \in Helpers : helpers[p][w].st = "dead"
    /\ helpers' = [helpers EXCEPT ![p] =
                      [w \in Helpers |->
                          IF @[w].st \in {"dead", "ended"} THEN Idle
                          ELSE @[w]]]
    /\ UNCHANGED <<connVars, wire, lines, futures, hs, total_sent, total_recv,
                   hookVars, lpc, epc, calls, injected, last>>
    /\ UNCHANGED server

\* ------------------------------------------------------------ handler tasks
Gathering(p, w, hset) ==
    helpers[p][w].st = "gather" /\ helpers[p][w].h \in hset

\* cb_ping: data.get("params", [])
PingResult(d) == IF d.params = Absent THEN "[]" ELSE d.params

\* A handler task that returns a result: cb_ping, or a handler the user or
\* the accept-loop owner registered. The result of a request handler is sent
\* as the response; a notification handler's is not.
TaskRun(p, w, ok) ==
    /\ Gathering(p, w, {"cb_ping", "cb_time", "local_handler",
                        "inher_handler", "server_handler", "peer_handler"})
    /\ LET t == helpers[p][w]
           res == IF t.h = "cb_ping" THEN PingResult(t.d) ELSE t.h
       IN IF JRPC_check(t.d) = "REQUEST"
          THEN /\ total_sent' = RespondCount(p)
               /\ wire' = Sent(p, make_response_res(t.d.id, res), ok)
          ELSE UNCHANGED <<total_sent, wire>>
    /\ helpers' = [helpers EXCEPT ![p][w] = Idle]
    /\ UNCHANGED <<connVars, lines, futures, hs, total_recv, hookVars, lpc,
                   epc, calls, injected, last>>
    /\ UNCHANGED server

\* A handler hooked with hook_request or hook_notif raises: gather(*tasks)
\* re-raises it in _helper, which closes the peer on a ConnectionError and
\* is ended by anything else. Nothing is sent.
TaskRaise(p, w, exc) ==
    /\ Gathering(p, w, {"local_handler", "inher_handler"})
    /\ IF exc = "ConnectionError"
       THEN /\ IF open[p] THEN CloseConn(p) ELSE UNCHANGED <<open, group>>
            /\ helpers' = [helpers EXCEPT ![p][w] = Idle]
       ELSE /\ helpers' = Died(p, w)
            /\ UNCHANGED <<open, group>>
    /\ UNCHANGED <<box, peerKey, canEncrypt, wire, lines, futures, hs,
                   total_sent, total_recv, hookVars, lpc, epc, calls,
                   injected, last>>
    /\ UNCHANGED server

\* ---------------------------------------------------------- RSA handshake
\* cb_rsa_exchange: store the peer's key and return our own, or refuse with
\* (92, "Encryption Unavailable"); the returned value is sent as the response.
ExchAnswer_Key(p, d) == make_response_res(d.id, "key")

\* cb_rsa_exchange's return value as the response to the request.
ExchAnswer(p, d) ==
    IF canEncrypt[p] THEN make_response_res(d.id, "key")
    ELSE make_response_err(d.id, EncryptionUnavailable)

TaskRsaExch(p, w, ok) ==
    /\ Gathering(p, w, {"cb_rsa_exchange"})
    /\ LET d == helpers[p][w].d IN
       /\ peerKey' = IF canEncrypt[p] THEN [peerKey EXCEPT ![p] = TRUE]
                     ELSE peerKey
       /\ wire' = Sent(p, ExchAnswer(p, d), ok)
    /\ total_sent' = RespondCount(p)
    /\ helpers' = [helpers EXCEPT ![p][w] = Idle]
    /\ UNCHANGED <<open, box, canEncrypt, group, lines, futures, hs,
                   total_recv, hookVars, lpc, epc, calls, injected, last>>
    /\ UNCHANGED server

\* cb_rsa_confirm when `await remote.respond(...)` returns without the write
\* suspending: respond [True], then begin_encryption, in one step of the
\* event loop; or refuse with (1, "Cannot Activate").
ConfAnswer_True(p, d) == make_response_res(d.id, "true")

\* cb_rsa_confirm's response: [True] when the connection can activate, else
\* the error (1, "Cannot Activate").
ConfAnswer(p, d) ==
    IF can_activate(p) THEN make_response_res(d.id, "true")
    ELSE make_response_err(d.id, CannotActivate)

TaskRsaConf(p, w, ok) ==
    /\ Gathering(p, w, {"cb_rsa_confirm"})
    /\ wire' = Sent(p, ConfAnswer(p, helpers[p][w].d), ok)
    /\ box' = IF can_activate(p) THEN [box EXCEPT ![p] = TRUE] ELSE box
    /\ total_sent' = RespondCount(p)
    /\ helpers' = [helpers EXCEPT ![p][w] = Idle]
    /\ UNCHANGED <<open, peerKey, canEncrypt, group, lines, futures, hs,
                   total_recv, hookVars, lpc, epc, calls, injected, last>>
    /\ UNCHANGED server

\* cb_rsa_confirm when the write of the response suspends: the frame is with
\* the writer, the handler waits at `await remote.respond(...)`.
TaskRsaConfWrite(p, w, ok) ==
    /\ Gathering(p, w, {"cb_rsa_confirm"})
    /\ can_activate(p)
    /\ wire' = Sent(p, make_response_res(helpers[p][w].d.id, "true"), ok)
    /\ total_sent' = RespondCount(p)
    /\ helpers' = [helpers EXCEPT ![p][w].st = "conf"]
    /\ UNCHANGED <<connVars, lines, futures, hs, total_recv, hookVars, lpc,
                   epc, calls, injected, last>>
    /\ UNCHANGED server

\* cb_rsa_confirm resumes after the write: begin_encryption.
TaskRsaConfResume(p, w) ==
    /\ helpers[p][w].st = "conf"
    /\ box' = [box EXCEPT ![p] = TRUE]
    /\ helpers' = [helpers EXCEPT ![p][w] = Idle]
    /\ UNCHANGED <<open, peerKey, canEncrypt, group, wire, lines, futures, hs,
                   total_sent, total_recv, hookVars, lpc, epc, calls,
                   injected, last>>
    /\ UNCHANGED server

\* `(await self.request_wait(...))[0]` in enable_rsa: the first element of
\* the value request_wait returned. A list with a first element has it true
\* ("key", "true") or false ("[null]"); the empty list has none (IndexError)
\* and null is no list at all (TypeError).
Subscript(val) ==
    CASE val = "[]" -> "IndexError"
      [] val \in {"null", Absent} -> "TypeError"
      [] val = "[null]" -> "falsy"
      [] OTHER -> "truthy"

\* What request_wait hands enable_rsa for a Future that is done: its result,
\* or the default ([None], [False]) after an error response or a timeout.
RsaReturned(fut) == IF fut.st = "result" THEN fut.val ELSE "[null]"

\* The Future enable_rsa is waiting for.
RsaHandle(p, wait) == CHOOSE h \in Handles : hs[p][h].wait = wait
RsaAnswered(p, wait) ==
    \E h \in Handles : hs[p][h].wait = wait /\ Done(hs[p][h])

\* enable_rsa up to its first wait: refuse without crypto or when encryption
\* is already in progress, else request RSA.EXCH with our key. On a closed
\* peer request_wait returns None, and subscripting it raises TypeError.
EnableStart(p, ok) ==
    /\ epc[p] = "off"
    /\ IF ~canEncrypt[p] \/ box[p]
       THEN /\ epc' = [epc EXCEPT ![p] = "False"]
            /\ UNCHANGED <<futures, hs, total_sent, wire>>
       ELSE IF ~open[p]
       THEN /\ epc' = [epc EXCEPT ![p] = "TypeError"]
            /\ UNCHANGED <<futures, hs, total_sent, wire>>
       ELSE /\ epc' = [epc EXCEPT ![p] = "exch"]
            /\ DoRequest(p, "RSA.EXCH", "key", ok, "rsa_exch")
    /\ UNCHANGED <<connVars, lines, total_recv, hookVars, helpers, lpc,
                   calls, injected, last>>
    /\ UNCHANGED server

\* enable_rsa resumes with the answer to RSA.EXCH: on a key, store it and
\* request RSA.CONF; on an error response (the default [None]) or a false
\* first element return False; a result without a first element raises.
EnableExch(p, ok) ==
    /\ epc[p] = "exch"
    /\ RsaAnswered(p, "rsa_exch")
    /\ LET h == RsaHandle(p, "rsa_exch") IN
       LET key == Subscript(RsaReturned(hs[p][h])) IN
       IF key = "truthy"
       THEN /\ peerKey' = [peerKey EXCEPT ![p] = TRUE]
            /\ IF open[p]
               THEN /\ epc' = [epc EXCEPT ![p] = "conf"]
                    /\ DoRequest(p, "RSA.CONF", "true", ok, "rsa_conf")
               ELSE /\ epc' = [epc EXCEPT ![p] = "TypeError"]
                    /\ UNCHANGED <<futures, hs, total_sent, wire>>
       ELSE /\ epc' = [epc EXCEPT ![p] =
                         IF key = "falsy" THEN "False" ELSE key]
            /\ UNCHANGED <<peerKey, futures, hs, total_sent, wire>>
    /\ UNCHANGED <<open, box, canEncrypt, group, lines, total_recv, hookVars,
                   helpers, lpc, calls, injected, last>>
    /\ UNCHANGED server

\* enable_rsa's request_wait times out (RSA.EXCH or RSA.CONF): wait_for
\* cancels the Future, the default comes back and enable_rsa returns False.
EnableTimeout(p) ==
    /\ epc[p] \in {"exch", "conf"}
    /\ LET wait == IF epc[p] = "exch" THEN "rsa_exch" ELSE "rsa_conf"
           h == RsaHandle(p, wait)
       IN /\ ~RsaAnswered(p, wait)
          /\ hs' = [hs EXCEPT ![p][h].st = "cancelled"]
    /\ epc' = [epc EXCEPT ![p] = "False"]
    /\ UNCHANGED <<connVars, wire, lines, futures, total_sent, total_recv,
                   hookVars, helpers, lpc, calls, injected, last>>
    /\ UNCHANGED server

\* enable_rsa resumes with the answer to RSA.CONF: on [True]
\* begin_encryption and return True, on a false first element return False;
\* a result without a first element raises.
EnableConf(p) ==
    /\ epc[p] = "conf"
    /\ RsaAnswered(p, "rsa_conf")
    /\ LET h == RsaHandle(p, "rsa_conf") IN
       LET conf == Subscript(RsaReturned(hs[p][h])) IN
       IF conf = "truthy"
       THEN /\ box' = [box EXCEPT ![p] = TRUE]
            /\ epc' = [epc EXCEPT ![p] = "True"]
       ELSE /\ epc' = [epc EXCEPT ![p] =
                         IF conf = "falsy" THEN "False" ELSE conf]
            /\ UNCHANGED box
    /\ UNCHANGED <<open, peerKey, canEncrypt, group, wire, lines, futures, hs,
                   total_sent, total_recv, hookVars, helpers, lpc, calls,
                   injected, last>>
    /\ UNCHANGED server

\* --------------------------------------------------------------------- Spec
\* The remote host of the one-peer specifications writes a line.  It writes
\* when the line before has been read: lines are read in the order they are
\* written in, so the peer observes the same with several lines waiting.
EnvSend(m) ==
    /\ injected < MaxInbound
    /\ wire[1] = <<>>
    /\ injected' = injected + 1
    /\ wire' = [wire EXCEPT ![1] = Append(@, [enc |-> FALSE, msg |-> m])]
    /\ UNCHANGED <<connVars, lines, futures, hs, total_sent, total_recv,
                   hookVars, helpers, lpc, epc, calls, last>>
    /\ UNCHANGED server

\* Spec, the life of the connection: user tasks of peer 1 call its API on
\* the open and on the closed peer, while the peer is closed by terminate, by
\* an inbound TERM or by the read loop ending.
Next ==
    \/ EnvSend(make_notif("TERM", "bye"))
    \/ \E ok \in BOOLEAN : Request(1, "PING", "p1", ok)
    \/ \E ok, nohandle \in BOOLEAN : Notif(1, "HEARTBEAT", "{}", ok, nohandle)
    \/ \E ok \in BOOLEAN : Respond(1, 9, "r", ok)
    \/ \E ok \in BOOLEAN : Send(1, make_notif("HEARTBEAT", "{}"), ok)
    \/ \E ok \in BOOLEAN : Terminate(1, "bye", ok)
    \/ LoopRead(1)
    \/ LoopEnd(1)
    \/ \E w \in Helpers : HelperTerm(1, w)

Spec == Init /\ [][Next]_vars

\* SpecCall, the calling side: requests of peer 1 and the remote host's
\* answers, which may carry any id, a result or (for the first id, which any
\* request may have drawn) an error, and may repeat.
CallLines ==
    {make_response_res(i, "r") : i \in Ids}
        \cup {make_response_err(1, 5)}

NextCall ==
    \/ \E m \in CallLines : EnvSend(m)
    \/ \E ok \in BOOLEAN : Request(1, "PING", "p1", ok)
    \/ \E rre \in BOOLEAN : RequestWait(1, "SLOW", Absent, TRUE, rre)
    \/ \E h \in Handles : WaitTimeout(1, h)
    \/ \E h \in Handles : WaitReturn(1, h)
    \/ LoopRead(1)
    \/ \E w \in Helpers : HelperResponse(1, w)

SpecCall == Init /\ [][NextCall]_vars

\* SpecDispatch, the called side: the remote host sends requests and
\* notifications with and without a handler, TERM with every shape of params,
\* an envelope that is no JSON-RPC message, and text that is no JSON, while
\* handlers are registered in both layers.
DispatchLines ==
    {make_request("PING", "p1", 9), make_request("NOPE", "[]", 9),
     make_request("USR", "[]", 9)}
        \cup {make_notif("TERM", r) : r \in {Absent, "noreason", "null", "bye"}}
        \cup {make_notif("USR", "{}"), make_notif("HEARTBEAT", "{}")}
        \cup {Msg(NoMethod, 9, Absent, "r", 5), Garbage("notjson")}

NextDispatch ==
    \/ \E m \in DispatchLines : EnvSend(m)
    \/ HookRequest(1, "USR", "local_handler")
    \/ HookNotif(1, "USR", "local_handler")
    \/ InheritRequest(1, "USR", "inher_handler")
    \/ InheritNotif(1, "USR", "inher_handler")
    \/ LoopRead(1)
    \/ LoopEnd(1)
    \/ \E w \in Helpers : HelperRequest(1, w)
    \/ \E w \in Helpers, ok \in BOOLEAN : HelperRequestUnknown(1, w, ok)
    \/ \E w \in Helpers : HelperNotif(1, w)
    \/ \E w \in Helpers : HelperTerm(1, w)
    \/ \E w \in Helpers, ok \in BOOLEAN : HelperInvalid(1, w, ok)
    \/ \E w \in Helpers, ok \in BOOLEAN : HelperBadJson(1, w, ok)
    \/ \E w \in Helpers, ok \in BOOLEAN : TaskRun(1, w, ok)
    \/ Revive(1)

SpecDispatch == Init /\ [][NextDispatch]_vars


\* ------------------------------------------------------------------- claims
Registered(p, h) == \E mid \in DOMAIN futures[p] : futures[p][mid] = h
\* The step is a call of API operation `op` on peer p.
Calls(p, op) == calls'[p] = calls[p] + 1 /\ last'.op = op
\* The step is a helper of peer p taking a line of the given kind.
Takes(p, kind) ==
    /\ lines[p] # <<>>
    /\ lines'[p] = Tail(lines[p])
    /\ Line(p).form = "json"
    /\ JRPC_check(Line(p)) = kind

\* C1: a request on an open peer that has sent its frame leaves its id in
\* futures, mapped to the returned Future, still pending; a registered id
\* keeps its Future until a response with that id is processed; processing
\* such a response removes the id and completes a pending Future with the
\* response's result or error; a Future that is done never changes again,
\* so a second response with the same id completes nothing.
C1_RequestStep ==
    (open[1] /\ total_sent'[1].request = total_sent[1].request + 1
        /\ wire'[2] # wire[2])
    => LET mid == wire'[2][Len(wire'[2])].msg.id
           h == NextHandle(1)
       IN /\ mid \in DOMAIN futures'[1]
          /\ futures'[1][mid] = h
          /\ hs'[1][h].st = "pending"
          /\ \A m \in DOMAIN futures[1] :
                m \in DOMAIN futures'[1] /\ futures'[1][m] = futures[1][m]

C1_ResponseStep ==
    Takes(1, "RESPONSE")
    => LET d == Line(1)
       IN /\ d.id \notin DOMAIN futures'[1]
          /\ \A m \in DOMAIN futures[1] \ {d.id} :
                m \in DOMAIN futures'[1] /\ futures'[1][m] = futures[1][m]
          /\ d.id \in DOMAIN futures[1]
             => LET h == futures[1][d.id]
                IN IF hs[1][h].st = "pending"
                   THEN /\ hs'[1][h].st =
                              (IF d.error # NoError THEN "error" ELSE "result")
                        /\ hs'[1][h].val = d.result
                        /\ hs'[1][h].code = d.error
                   ELSE hs'[1][h] = hs[1][h]

C1_OnceDone ==
    \A h \in Handles :
        Done(hs[1][h])
        => /\ hs'[1][h].st = hs[1][h].st
           /\ hs'[1][h].val = hs[1][h].val
           /\ hs'[1][h].code = hs[1][h].code

C1_OnlyResponsesRemove ==
    \A m \in DOMAIN futures[1] :
        m \notin DOMAIN futures'[1] => Takes(1, "RESPONSE") /\ Line(1).id = m

C1_RequestResponseOnce ==
    [][C1_RequestStep /\ C1_ResponseStep /\ C1_OnceDone
         /\ C1_OnlyResponsesRemove]_vars

\* C1 witness: a Future completed by a response is no longer registered
\* while a later response with the same id is being taken from the queue.
C1_Witness ==
    \E h \in Handles :
        /\ hs[1][h].st = "result"
        /\ ~Registered(1, h)
        /\ lines[1] # <<>>
        /\ JRPC_check(Line(1)) = "RESPONSE"
        /\ Line(1).id = hs[1][h].id
        /\ Line(1).id \notin DOMAIN futures[1]

\* C2: once the peer is closed and its loop has returned (so nothing is left
\* that could still answer), no Future in the registry is pending: close has
\* failed each outstanding one with a connection reset.
C2_CloseFailsPending ==
    (~open[1] /\ lpc[1] = "done")
    => \A mid \in DOMAIN futures[1] : hs[1][futures[1][mid]].st # "pending"

\* C5: request on a closed peer returns a Future already failed with a
\* connection reset, registers nothing, sends nothing and counts nothing.
C5_RequestOnClosed ==
    [][(~open[1] /\ Calls(1, "request"))
       => /\ hs'[1][NextHandle(1)].st = "reset"
          /\ futures' = futures
          /\ wire' = wire
          /\ total_sent' = total_sent]_vars

\* C5 witness: request was called on the closed peer and its Future is
\* failed with the connection reset.
C5_Witness ==
    /\ last.op = "request"
    /\ ~last.open
    /\ \E h \in Handles : hs[1][h].st = "reset" /\ ~Registered(1, h)

\* C6: notif, respond and send on a closed peer write no frame, raise
\* nothing, and leave the sent counters and the registry as they were.
C6_ClosedSendsNothing ==
    [][(~open[1]
          /\ (Calls(1, "notif") \/ Calls(1, "respond") \/ Calls(1, "send")))
       => /\ wire' = wire
          /\ total_sent' = total_sent
          /\ futures' = futures
          /\ hs' = hs
          /\ ~last'.raised]_vars

\* C6 witness: two of the three operations were called on the closed peer,
\* the last of them notif.
C6_Witness ==
    /\ last.op = "notif"
    /\ ~last.open
    /\ calls[1] = MaxCalls
    /\ lpc[1] = "done"
    /\ total_sent[1] = Counter

\* C8: when request_wait has returned the default because its timeout
\* expired, the request's id is no longer in the registry.
C8_TimeoutRemovesSlot ==
    \A h \in Handles :
        (hs[1][h].st = "cancelled" /\ hs[1][h].wait = "default")
        => ~Registered(1, h)

\* C9: a request whose send failed (counted, registered, no frame written)
\* does not leave its Future pending: it is completed with the send error.
C9_FailedSendCompletes ==
    [][(open[1] /\ total_sent'[1].request = total_sent[1].request + 1
          /\ wire' = wire)
       => hs'[1][NextHandle(1)].st # "pending"]_vars


\* C7: whenever a helper has finished a TERM notification, whatever its
\* params, the peer is closed.
C7_TermCloses ==
    [][(Takes(1, "NOTIF") /\ Line(1).method = "TERM") => ~open'[1]]_vars

\* C10: a message whose method is registered in both the local and the
\* inherited table of its kind is dispatched to the local handler.
C10_LocalWins ==
    [][\A w \in Helpers :
          (helpers[1][w].st = "idle" /\ helpers'[1][w].st = "gather")
          => LET d == helpers'[1][w].d
                 local == IF JRPC_check(d) = "REQUEST" THEN hooks_request[1]
                          ELSE hooks_notif[1]
                 inher == IF JRPC_check(d) = "REQUEST"
                          THEN hooks_request_inher[1]
                          ELSE hooks_notif_inher[1]
             IN (d.method \in DOMAIN local /\ d.method \in DOMAIN inher)
                => helpers'[1][w].h = local[d.method]]_vars


\* ------------------------------------------------------------------ SpecRSA
\* Both ends are engines with crypto available; peer 1 runs enable_rsa while
\* user tasks on both sides send notifications.
InitRSA ==
    /\ InitCommon
    /\ canEncrypt = [p \in Peers |-> TRUE]
    /\ lpc = [p \in Peers |-> "run"]

NextRSA ==
    \/ EnableStart(1, TRUE)
    \/ EnableExch(1, TRUE)
    \/ EnableConf(1)
    \/ EnableTimeout(1)
    \/ \E p \in Peers : Notif(p, "HEARTBEAT", "{}", TRUE, FALSE)
    \/ \E p \in Peers : LoopRead(p)
    \/ \E p \in Peers, w \in Helpers : HelperResponse(p, w)
    \/ \E p \in Peers, w \in Helpers : HelperRequest(p, w)
    \/ \E p \in Peers, w \in Helpers : HelperNotif(p, w)
    \/ \E p \in Peers, w \in Helpers : HelperBadJson(p, w, TRUE)
    \/ \E p \in Peers, w \in Helpers : TaskRsaExch(p, w, TRUE)
    \/ \E p \in Peers, w \in Helpers : TaskRsaConf(p, w, TRUE)
    \/ \E p \in Peers, w \in Helpers : TaskRsaConfWrite(p, w, TRUE)
    \/ \E p \in Peers, w \in Helpers : TaskRsaConfResume(p, w)

SpecRSA == InitRSA /\ [][NextRSA]_vars

\* The step is peer p's read loop taking the frame at the head of its wire.
Reads(p) == wire[p] # <<>> /\ wire'[p] = Tail(wire[p])

\* C3: every frame is read in the mode in which it was written: a sealed
\* frame only by a reader whose encryption is active, a plaintext frame only
\* by a reader still in plaintext mode.
C3_SameModeReads ==
    [][\A p \in Peers : Reads(p) => Head(wire[p]).enc = box[p]]_vars

\* The RSA.CONF handler of p has handed its [True] response to the writer
\* and has not yet called begin_encryption.
InConfirm(p) == \E w \in Helpers : helpers[p][w].st = "conf"

\* C4: while the RSA.CONF handler is between handing over its response and
\* begin_encryption, the peer puts no other frame on its connection.
C4_ConfirmCriticalSection ==
    [][\A p \in Peers :
          InConfirm(p) => Len(wire'[Other(p)]) <= Len(wire[Other(p)])]_vars


\* ------------------------------------------------------- claims, dispatch
\* The frames peer p has written hold message m.
Wrote(p, m) == \E i \in DOMAIN wire[Out(p)] : wire[Out(p)][i].msg = m
\* What respond does to the wire: the frame, or nothing when the write fails.
Responds(p, m) ==
    wire' \in {wire, [wire EXCEPT ![Out(p)] = Append(@, Frame(p, m))]}

\* C11: a request whose method has no handler in either layer, taken on an
\* open peer, is answered by one respond call (the response counter grows by
\* one) whose frame carries the request's id and method_not_found; no
\* handler task is spawned and the peer stays open.
C11_UnknownRequest ==
    [][(Takes(1, "REQUEST") /\ open[1]
            /\ Line(1).method \notin DOMAIN hooks_request[1]
            /\ Line(1).method \notin DOMAIN hooks_request_inher[1])
       => /\ Responds(1, make_response_err(Line(1).id, method_not_found))
          /\ total_sent'[1].response = total_sent[1].response + 1
          /\ helpers' = helpers
          /\ open' = open]_vars

C11_Witness ==
    /\ Wrote(1, make_response_err(9, method_not_found))
    /\ total_sent[1].response = 1
    /\ open[1]
    /\ \A w \in Helpers : helpers[1][w] = Idle

\* C12: a notification other than TERM whose method has no handler in
\* either layer emits no frame, counts one received notification, spawns no
\* task and leaves the peer open.
C12_UnknownNotif ==
    [][(Takes(1, "NOTIF") /\ Line(1).method # "TERM"
            /\ Line(1).method \notin DOMAIN hooks_notif[1]
            /\ Line(1).method \notin DOMAIN hooks_notif_inher[1])
       => /\ wire' = wire
          /\ total_sent' = total_sent
          /\ total_recv' = [total_recv EXCEPT ![1].notif = @ + 1]
          /\ helpers' = helpers
          /\ open' = open]_vars

C12_Witness ==
    /\ total_recv[1].notif = 1
    /\ hooks_notif[1] = EmptyDict /\ hooks_notif_inher[1] = EmptyDict
    /\ wire[2] = <<>>
    /\ open[1]
    /\ \A w \in Helpers : helpers[1][w] = Idle


\* ----------------------------------------------------------------- SpecPool
\* The worker pool: requests with and without a handler, a notification
\* nobody handles, a falsy line and a line that is JSON but no object reach
\* the helpers of peer 1; the handler hooked for USR returns or raises.
PoolLines ==
    {make_request("NOPE", "[]", 9), make_request("USR", "[]", 9),
     make_notif("HEARTBEAT", "{}"), Garbage("empty"), Garbage("notobject")}

\* A helper takes the line at the head of the queue.
PoolTake(w) ==
    \/ HelperRequest(1, w)
    \/ \E ok \in BOOLEAN : HelperRequestUnknown(1, w, ok)
    \/ HelperNotif(1, w)
    \/ HelperNotObject(1, w)
    \/ HelperEnd(1, w)

\* The handler task a helper gathers finishes.
PoolTask(w) ==
    \/ TaskRun(1, w, TRUE)
    \/ \E exc \in {"ConnectionError", "Exception"} : TaskRaise(1, w, exc)

NextPool ==
    \/ \E m \in PoolLines : EnvSend(m)
    \/ HookRequest(1, "USR", "local_handler")
    \/ LoopRead(1)
    \/ LoopEnd(1)
    \/ \E w \in Helpers : PoolTake(w)
    \/ \E w \in Helpers : PoolTask(w)
    \/ Revive(1)

SpecPool == Init /\ [][NextPool]_vars

\* The event loop runs every task that is ready: the read loop, the
\* helpers, the handler tasks and the supervisor. What the remote host sends
\* and when the stream ends is not ours to schedule.
SpecPoolFair ==
    /\ SpecPool
    /\ WF_vars(LoopRead(1))
    /\ WF_vars(Revive(1))
    /\ \A w \in Helpers : WF_vars(PoolTake(w)) /\ WF_vars(PoolTask(w))

\* The step ends the handler task that helper w of peer 1 gathers for a
\* request, by its returning or raising (not by cancellation).
FinishesRequest(w) ==
    /\ helpers[1][w].st = "gather"
    /\ JRPC_check(helpers[1][w].d) = "REQUEST"
    /\ helpers'[1][w].st \in {"idle", "dead"}

\* C13: when the handler of a request finishes, by returning or by raising
\* an exception of any type, the helper lives on, one response to the
\* request's id is sent (the result, or error -32603), and the peer is as
\* open as before.
C13_HandlerErrorAnswered ==
    [][\A w \in Helpers :
          FinishesRequest(w)
          => LET d == helpers[1][w].d IN
             /\ helpers'[1][w] = Idle
             /\ open' = open
             /\ total_sent'[1].response
                   = total_sent[1].response + (IF open[1] THEN 1 ELSE 0)
             /\ \/ Responds(1, make_response_err(d.id, -32603))
                \/ Responds(1, make_response_res(d.id, helpers[1][w].h))]_vars

Stopped(w) == helpers[1][w].st \in {"dead", "ended"}

\* C14: a helper that has stopped, by an exception or by returning, while
\* the supervisor has not been cancelled, is eventually replaced.
C14_WorkersRevived ==
    \A w \in Helpers :
        (Stopped(w) /\ lpc[1] = "run") ~> (~Stopped(w) \/ lpc[1] # "run")

\* C15: the step in which a helper dies of an exception changes no other
\* helper, leaves the supervisor and the read loop running and the peer
\* open; and while a helper is dead, every idle helper can take the line
\* at the head of the queue.
C15_ErrorStaysLocal ==
    [][/\ \A w \in Helpers :
            (helpers[1][w].st # "dead" /\ helpers'[1][w].st = "dead")
            => /\ \A x \in Helpers \ {w} : helpers'[1][x] = helpers[1][x]
               /\ open' = open
               /\ group' = group
               /\ lpc' = lpc
       /\ \A w, x \in Helpers :
            (helpers[1][w].st = "dead" /\ helpers[1][x].st = "idle"
                /\ lines[1] # <<>>)
            => ENABLED PoolTake(x)]_vars

C15_Witness ==
    /\ \E w, x \in Helpers :
          helpers[1][w].st = "dead" /\ helpers[1][x].st = "gather"
    /\ open[1]
    /\ lpc[1] = "run"


\* --------------------------------------------------------------- SpecFrames
\* Malformed frames: text that is no JSON, bytes that are no text, JSON that
\* is no object, and objects that are no JSON-RPC envelope, with an id,
\* without one and with an id that is zero or empty; peer 1 has requests
\* pending meanwhile.
FrameLines ==
    {Garbage("notjson"), Garbage("notutf8"), Garbage("notobject"),
     Msg(NoMethod, 9, Absent, "r", 5),
     Msg(NoMethod, NoId, Absent, Absent, NoError),
     Msg(NoMethod, FalsyId, Absent, Absent, NoError)}

NextFrames ==
    \/ \E m \in FrameLines : EnvSend(m)
    \/ Request(1, "PING", "p1", TRUE)
    \/ LoopRead(1)
    \/ \E w \in Helpers, ok \in BOOLEAN : HelperInvalid(1, w, ok)
    \/ \E w \in Helpers, ok \in BOOLEAN : HelperBadJson(1, w, ok)
    \/ \E w \in Helpers : HelperNotObject(1, w)
    \/ Revive(1)

SpecFrames == Init /\ [][NextFrames]_vars

\* The step is a helper of peer p taking the line at the head of the queue.
TakesLine(p) == lines[p] # <<>> /\ lines'[p] = Tail(lines[p])
\* One respond call with message m, or none at all.
Answered(p, m) ==
    /\ Responds(p, m)
    /\ total_sent' = [total_sent EXCEPT ![p].response = @ + 1]
Dropped == wire' = wire /\ total_sent' = total_sent

\* C16: a malformed line never closes the peer nor touches the pending
\* registry, and gets at most one error response: text that is no JSON is
\* answered with parse_error to id "0"; a decoded object that is no JSON-RPC
\* envelope is answered with invalid_request to its id when it has one and
\* is dropped otherwise; anything else malformed is dropped.
C16_MalformedFrames ==
    [][(TakesLine(1)
            /\ (Line(1).form # "json" \/ JRPC_check(Line(1)) = "INVALID"))
       => /\ open' = open
          /\ futures' = futures
          /\ hs' = hs
          /\ IF Line(1).form = "notjson"
             THEN Answered(1, make_response_err(ParseErrorId, parse_error))
             ELSE IF Line(1).form = "json" /\ Line(1).id # NoId
             THEN Answered(1, make_response_err(Line(1).id, invalid_request))
             ELSE Dropped]_vars


C18_TerminateCloses ==
    [][Calls(1, "terminate")
       => /\ ~last'.raised
          /\ IF open[1]
             THEN /\ ~open'[1]
                  /\ Responds(1, make_notif("TERM", "bye"))
                  /\ total_sent' = [total_sent EXCEPT ![1].notif = @ + 1]
             ELSE /\ wire' = wire
                  /\ total_sent' = total_sent
                  /\ open' = open
                  /\ group' = group
                  /\ futures' = futures
                  /\ hs' = hs]_vars

C18_Witness ==
    /\ last.op = "terminate" /\ last.open
    /\ ~open[1]
    /\ calls[1] = 1
    /\ total_sent[1].notif = 1
    /\ wire[2] = <<>>


\* ---------------------------------------------------------------- SpecPlain
\* Both ends are engines and at least one of them has no crypto; peer 1
\* runs enable_rsa and sends PING requests.
InitPlain ==
    /\ InitCommon
    /\ canEncrypt \in {c \in [Peers -> BOOLEAN] : \E p \in Peers : ~c[p]}
    /\ lpc = [p \in Peers |-> "run"]

NextPlain ==
    \/ EnableStart(1, TRUE)
    \/ EnableExch(1, TRUE)
    \/ EnableTimeout(1)
    \/ Request(1, "PING", "[1]", TRUE)
    \/ \E p \in Peers : LoopRead(p)
    \/ \E w \in Helpers : HelperRequest(2, w)
    \/ \E w \in Helpers : HelperResponse(1, w)
    \/ \E w \in Helpers : TaskRun(2, w, TRUE)
    \/ \E w \in Helpers : TaskRsaExch(2, w, TRUE)

SpecPlain == InitPlain /\ [][NextPlain]_vars

\* SpecPing: peer 1 sends PING requests with an empty and a non-empty list
\* and object as params, peer 2 answers them.
PingParams == {"[]", "{}", "[1]", "{a:1}"}

NextPing ==
    \/ \E params \in PingParams : Request(1, "PING", params, TRUE)
    \/ \E p \in Peers : LoopRead(p)
    \/ \E w \in Helpers : HelperRequest(2, w)
    \/ \E w \in Helpers : HelperResponse(1, w)
    \/ \E w \in Helpers : TaskRun(2, w, TRUE)

SpecPing == InitPlain /\ [][NextPing]_vars

\* C19: without crypto on the responder, the RSA.EXCH handler answers with
\* error 92 to the request's id, stores no key and leaves the channel state
\* as it is; without crypto on the initiator, enable_rsa returns False
\* having sent nothing; and once enable_rsa has returned False both peers
\* are open and in plaintext.
C19_NoCryptoFailsCleanly ==
    [][/\ \A w \in Helpers :
            (Gathering(2, w, {"cb_rsa_exchange"}) /\ ~canEncrypt[2]
                /\ helpers'[2][w] = Idle)
            => /\ Answered(2, make_response_err(helpers[2][w].d.id,
                                                 EncryptionUnavailable))
               /\ peerKey' = peerKey
               /\ box' = box
               /\ open' = open
       /\ (epc[1] = "off" /\ epc'[1] # "off" /\ ~canEncrypt[1])
            => /\ epc'[1] = "False"
               /\ wire' = wire
               /\ total_sent' = total_sent
               /\ futures' = futures
               /\ open' = open
       /\ epc'[1] = "False"
            => \A p \in Peers : open'[p] /\ ~box'[p] /\ ~peerKey'[p]]_vars

\* The responder has refused RSA.EXCH with error 92, enable_rsa has returned
\* False, and a PING requested after RSA.EXCH has come back with its params.
C19_Witness ==
    /\ epc[1] = "False"
    /\ \E h, g \in Handles :
          /\ h < g
          /\ hs[1][h].wait = "rsa_exch"
          /\ hs[1][h].st = "error"
          /\ hs[1][h].code = EncryptionUnavailable
          /\ hs[1][g].wait = "raw"
          /\ hs[1][g].st = "result"
          /\ hs[1][g].val = "[1]"

\* C20: a PING request that is done has completed with a result equal to
\* the params it was called with.
C20_PingRoundTrip ==
    \A h \in Handles :
        (hs[1][h].wait = "raw" /\ Done(hs[1][h]))
        => hs[1][h].st = "result" /\ hs[1][h].val = hs[1][h].params

\* ---------------------------------------------------------------- C21
\* request_wait returns for the Future h it was waiting on.
Returns(p, h) ==
    /\ hs[p][h].wait \in {"waiting", "waiting_raise"}
    /\ hs'[p][h].wait \notin {"waiting", "waiting_raise"}

\* C21: when request_wait on an open peer returns after its request was
\* answered, an error response makes it return the default without
\* raise_remote_err and raise the RemoteError with it, and a result makes
\* it return that result; the Future keeps what the response put in it.
C21_WaitAnswered ==
    [][\A h \in Handles :
          (Returns(1, h) /\ hs[1][h].st \in {"result", "error"})
          => /\ hs'[1][h].st = hs[1][h].st
             /\ hs'[1][h].val = hs[1][h].val
             /\ hs'[1][h].code = hs[1][h].code
             /\ hs[1][h].st = "result" => hs'[1][h].wait = "result"
             /\ (hs[1][h].st = "error" /\ hs[1][h].wait = "waiting")
                => hs'[1][h].wait = "default"
             /\ (hs[1][h].st = "error" /\ hs[1][h].wait = "waiting_raise")
                => hs'[1][h].wait = "raised"]_vars

\* C21 witness: one request_wait has raised the RemoteError of its error
\* response and another has returned the default for an error response.
C21_Witness ==
    \E g, h \in Handles :
        /\ hs[1][g].st = "error" /\ hs[1][g].wait = "raised"
        /\ hs[1][h].st = "error" /\ hs[1][h].wait = "default"

\* ---------------------------------------------------------------- C22
\* A later call of enable_rsa, after an earlier one returned True.
EnableAgain(p) ==
    /\ epc[p] = "True"
    /\ epc' = [epc EXCEPT ![p] = "off"]
    /\ UNCHANGED <<connVars, wire, lines, futures, hs, total_sent, total_recv,
                   hookVars, helpers, lpc, calls, injected, last>>
    /\ UNCHANGED server

\* SpecInitiator: peer 1, with crypto available, runs enable_rsa against a
\* remote host that answers its requests with a result or with an error, or
\* not at all.
InitInitiator ==
    /\ InitCommon
    /\ canEncrypt = [p \in Peers |-> p = 1]
    /\ lpc = [p \in Peers |-> IF p = 1 THEN "run" ELSE "off"]

InitiatorLines ==
    {make_response_res(i, r) :
        i \in Ids, r \in {"key", "true", "[null]", "[]", "null"}}
        \cup {make_response_err(1, 5)}

NextInitiator ==
    \/ \E m \in InitiatorLines : EnvSend(m)
    \/ EnableStart(1, TRUE)
    \/ EnableExch(1, TRUE)
    \/ EnableConf(1)
    \/ EnableTimeout(1)
    \/ EnableAgain(1)
    \/ LoopRead(1)
    \/ \E w \in Helpers : HelperResponse(1, w)

SpecInitiator == InitInitiator /\ [][NextInitiator]_vars

\* enable_rsa's request (RSA.EXCH or RSA.CONF, by `wait`) was answered with
\* a result whose first element is true.
RsaTruthy(p, wait) ==
    /\ RsaAnswered(p, wait)
    /\ hs[p][RsaHandle(p, wait)].st = "result"
    /\ Subscript(hs[p][RsaHandle(p, wait)].val) = "truthy"

\* C22: the initiator switches to ACTIVE only on a true answer to its
\* RSA.CONF request, which it sends only on a key in the answer to RSA.EXCH;
\* when a request of the handshake times out or is answered with an error or
\* with a falsy result, and when encryption is already in progress,
\* enable_rsa returns False and the channel keeps its mode.
C22_InitiatorActivation ==
    [][/\ (box'[1] /\ ~box[1])
          => epc[1] = "conf" /\ RsaTruthy(1, "rsa_conf")
       /\ (epc'[1] = "conf" /\ epc[1] # "conf")
          => epc[1] = "exch" /\ RsaTruthy(1, "rsa_exch")
       /\ (epc[1] = "exch" /\ epc'[1] # "exch" /\ ~RsaTruthy(1, "rsa_exch"))
          => epc'[1] = "False" /\ box'[1] = box[1]
       /\ (epc[1] = "conf" /\ epc'[1] # "conf" /\ ~RsaTruthy(1, "rsa_conf"))
          => epc'[1] = "False" /\ box'[1] = box[1]
       /\ (epc[1] = "off" /\ epc'[1] # "off" /\ box[1])
          => epc'[1] = "False" /\ box'[1] = box[1]]_vars

\* ---------------------------------------------------------------- C23
\* SpecResponder: peer 1, with crypto available, is asked by the remote host
\* for RSA.EXCH, RSA.CONF and PING, in any order and more than once.
InitResponder ==
    /\ InitCommon
    /\ canEncrypt = [p \in Peers |-> p = 1]
    /\ lpc = [p \in Peers |-> IF p = 1 THEN "run" ELSE "off"]

ResponderLines ==
    {make_request("RSA.EXCH", "key", 9), make_request("RSA.CONF", "true", 9),
     make_request("PING", "p1", 9)}

NextResponder ==
    \/ \E m \in ResponderLines : EnvSend(m)
    \/ LoopRead(1)
    \/ \E w \in Helpers : HelperRequest(1, w)
    \/ \E w \in Helpers, ok \in BOOLEAN : TaskRsaExch(1, w, ok)
    \/ \E w \in Helpers, ok \in BOOLEAN : TaskRsaConf(1, w, ok)
    \/ \E w \in Helpers, ok \in BOOLEAN : TaskRsaConfWrite(1, w, ok)
    \/ \E w \in Helpers : TaskRsaConfResume(1, w)
    \/ \E w \in Helpers, ok \in BOOLEAN : TaskRun(1, w, ok)

SpecResponder == InitResponder /\ [][NextResponder]_vars

\* Helper w's RSA.CONF handler starts in this step.
Confirms(w) ==
    /\ Gathering(1, w, {"cb_rsa_confirm"})
    /\ helpers'[1][w] # helpers[1][w]
\* Helper w's RSA.CONF handler comes back from its respond in this step.
Resumes(w) ==
    /\ helpers[1][w].st = "conf"
    /\ helpers'[1][w] # helpers[1][w]

\* C23: the responder becomes ACTIVE only in a step of its RSA.CONF handler,
\* started when the connection could activate; that handler calls respond
\* once, with [true] for the request's id, and switches after it without
\* another response; an RSA.CONF handled in any other state is answered with
\* error 1 and changes nothing of the secure channel.
C23_ResponderActivation ==
    [][/\ (box'[1] /\ ~box[1])
          => \E w \in Helpers :
                (Confirms(w) /\ can_activate(1)) \/ Resumes(w)
       /\ \A w \in Helpers :
          /\ (Confirms(w) /\ can_activate(1))
             => /\ Answered(1, make_response_res(helpers[1][w].d.id, "true"))
                /\ \/ box'[1] /\ helpers'[1][w] = Idle
                   \/ box' = box /\ helpers'[1][w].st = "conf"
          /\ Resumes(w)
             => box'[1] /\ Dropped /\ helpers'[1][w] = Idle
          /\ (Confirms(w) /\ ~can_activate(1))
             => /\ Answered(1, make_response_err(helpers[1][w].d.id,
                                                 CannotActivate))
                /\ UNCHANGED <<box, peerKey, canEncrypt, open>>
                /\ helpers'[1][w] = Idle]_vars

\* C23 witness: the responder is ACTIVE and its [true] is on the wire, in
\* plaintext.
C23_Witness ==
    /\ box[1]
    /\ \E i \in DOMAIN wire[2] :
          /\ wire[2][i].msg = make_response_res(9, "true")
          /\ ~wire[2][i].enc

\* ---------------------------------------------------------------- C28
\* The response being taken has no Future to complete: its id is not
\* registered, or the registered Future is cancelled or done already.
Unsolicited(p) == Line(p).id \notin DOMAIN futures[p]
Stale(p) ==
    /\ Line(p).id \in DOMAIN futures[p]
    /\ Done(hs[p][futures[p][Line(p).id]])

\* C28: a response that cannot be delivered changes no Future; with an
\* unregistered id it leaves the registry as it is, with a cancelled or
\* finished Future it removes that id and no other; either way it counts as
\* one received response, sends no frame and leaves the peer open.
C28_UndeliverableDropped ==
    [][(Takes(1, "RESPONSE") /\ (Unsolicited(1) \/ Stale(1)))
       => /\ hs' = hs
          /\ Unsolicited(1) => futures' = futures
          /\ Stale(1)
             => futures' = [futures EXCEPT ![1] = Pop(@, Line(1).id)]
          /\ total_recv' = [total_recv EXCEPT ![1].response = @ + 1]
          /\ wire'[2] = wire[2]
          /\ total_sent' = total_sent
          /\ open' = open]_vars

\* C28 witness: a response to a request whose request_wait had timed out has
\* removed the cancelled Future from the registry, while another request is
\* still pending and registered.
C28_Witness ==
    \E g, h \in Handles :
        /\ hs[1][g].st = "cancelled" /\ ~Registered(1, g)
        /\ hs[1][h].st = "pending" /\ Registered(1, h)

\* ---------------------------------------------------------------- C26
\* A helper task that is running: waiting for a line, or for its handler
\* task, or inside a handler.
Running(p, w) == helpers[p][w].st \in {"idle", "gather", "conf"}

\* C26: once loop() has ended, the peer is closed and none of its helpers is
\* running any more.
C26_LoopEndStopsAll ==
    lpc[1] = "done" => ~open[1] /\ \A w \in Helpers : ~Running(1, w)

\* C26 witness: the loop has ended with a line still in the queue, after the
\* helpers had taken requests.
C26_Witness ==
    /\ lpc[1] = "done"
    /\ lines[1] # <<>>
    /\ total_recv[1].request > 0

\* ---------------------------------------------------------------- C27
\* The step is a request of peer p that registers a Future.
Registers(p) ==
    /\ open[p]
    /\ total_sent'[p].request = total_sent[p].request + 1

ServerHookRequest(method, func) ==
    /\ server' = [server EXCEPT !.hooks_request = Put(@, method, func)]
    /\ hooks_request' =
          [q \in Peers |->
              IF Accepted(q) THEN Put(hooks_request[q], method, func)
              ELSE hooks_request[q]]
    /\ UNCHANGED <<connVars, wire, lines, futures, hs, total_sent, total_recv,
                   hooks_request_inher, hooks_notif, hooks_notif_inher,
                   helpers, lpc, epc, calls, injected, last>>

\* Server.open_connection up to `await remote.loop(...)`: make the Remote,
\* copy the notification hooks into it, set its hooks_request to the
\* Server's own dict, add it to remotes and start its loop.
OpenConnection(p) ==
    /\ server.conn[p] = "none"
    /\ server.term \in {"off", "iter"}
    /\ server' = [server EXCEPT !.total_clients = @ + 1,
                                !.remotes = @ \cup {p},
                                !.conn[p] = "loop"]
    /\ hooks_notif' =
          [hooks_notif EXCEPT ![p] = server.hooks_notif @@ hooks_notif[p]]
    /\ hooks_request' = [hooks_request EXCEPT ![p] = server.hooks_request]
    /\ lpc' = [lpc EXCEPT ![p] = "run"]
    /\ UNCHANGED <<connVars, wire, lines, futures, hs, total_sent, total_recv,
                   hooks_request_inher, hooks_notif_inher, helpers, epc,
                   calls, injected, last>>

\* Counter.update(other): adds the counts.
Updated(a, b) ==
    [notif |-> a.notif + b.notif, request |-> a.request + b.request,
     response |-> a.response + b.response]

\* Server.open_connection's finally, once the peer's loop has ended:
\* wait_for(rsa, 3) re-raises what enable_rsa raised, and else drop(remote)
\* adds the peer's counters and removes it from remotes, a KeyError when it
\* is not in the set.
Drop(p) ==
    /\ server.conn[p] = "loop"
    /\ lpc[p] = "done"
    /\ server' =
          IF epc[p] \in {"TypeError", "IndexError"}
          THEN [server EXCEPT !.conn[p] = epc[p]]
          ELSE [server EXCEPT
                   !.total_sent = Updated(@, total_sent[p]),
                   !.total_recv = Updated(@, total_recv[p]),
                   !.remotes = @ \ {p},
                   !.conn[p] = IF p \in server.remotes THEN "dropped"
                               ELSE "KeyError"]
    /\ UNCHANGED <<connVars, wire, lines, futures, hs, total_sent, total_recv,
                   hookVars, helpers, lpc, epc, calls, injected, last>>

\* Server.terminate, one turn of `for remote in self.remotes: await
\* remote.terminate(reason)`: the set iterator raises RuntimeError when the
\* set has changed size since the loop began; else the next remote is
\* terminated (TERM sent, peer closed), or, with none left, remotes is reset
\* to an empty set and the listening socket is closed.
ServerTerminate(ok) ==
    /\ server.term \in {"off", "iter"}
    /\ LET size == IF server.term = "off" THEN Cardinality(server.remotes)
                   ELSE server.size
           seen == IF server.term = "off" THEN {} ELSE server.seen
       IN IF Cardinality(server.remotes) # size
          THEN /\ server' = [server EXCEPT !.term = "RuntimeError"]
               /\ UNCHANGED <<open, group, total_sent, wire>>
          ELSE IF server.remotes \ seen = {}
          THEN /\ server' = [server EXCEPT !.term = "done", !.remotes = {}]
               /\ UNCHANGED <<open, group, total_sent, wire>>
          ELSE \E p \in server.remotes \ seen :
                  /\ server' = [server EXCEPT !.term = "iter",
                                              !.size = size,
                                              !.seen = seen \cup {p}]
                  /\ IF open[p]
                     THEN /\ total_sent' =
                                [total_sent EXCEPT ![p].notif = @ + 1]
                          /\ wire' = Sent(p, make_notif("TERM", "bye"),
                                          ok)
                          /\ ClosedAfterTerm(p, ok)
                     ELSE UNCHANGED <<open, group, total_sent, wire>>
    /\ UNCHANGED <<box, peerKey, canEncrypt, lines, futures, hs, total_recv,
                   hookVars, helpers, lpc, epc, calls, injected, last>>

\* The handler peer p's owner hooks on it.
HandlerOf(p) == IF p = 1 THEN "local_handler" ELSE "peer_handler"

\* SpecServer: a Server accepts two clients, hooks a handler of its own, is
\* terminated at some point, and drops each peer when its loop has ended;
\* the owner of peer 2 hooks a handler on it, and the client of peer 1
\* sends requests.
InitServer ==
    /\ InitCommon
    /\ canEncrypt = [p \in Peers |-> FALSE]
    /\ lpc = [p \in Peers |-> "off"]

ServerLines == {make_request("PING", "p1", 9), make_request("USR", "[]", 9)}

NextServer ==
    \/ \E p \in Peers : OpenConnection(p)
    \/ ServerHookRequest("USR", "server_handler")
    \/ Accepted(2) /\ HookRequest(2, "USR", HandlerOf(2))
    \/ \E p \in Peers : Accepted(p) /\ EnableStart(p, TRUE)
    \/ \E m \in ServerLines : EnvSend(m)
    \/ LoopRead(1)
    \/ \E w \in Helpers : HelperRequest(1, w)
    \/ \E w \in Helpers : HelperRequestUnknown(1, w, TRUE)
    \/ \E w \in Helpers : TaskRun(1, w, TRUE)
    \/ \E p \in Peers : LoopEnd(p)
    \/ \E p \in Peers : Drop(p)
    \/ ServerTerminate(TRUE)

SpecServer == InitServer /\ [][NextServer]_vars

\* ---------------------------------------------------------------- C24
\* C24: the request handlers installed at construction, PING, RSA.EXCH and
\* RSA.CONF, are in the request-handler lookup of every peer at all times,
\* also of a peer made by Server.open_connection.
C24_BuiltinsPresent ==
    \A p \in Peers : DOMAIN BuiltinHooks \subseteq DOMAIN Hooks(p, "REQUEST")

\* ---------------------------------------------------------------- C25
\* C25: hook_request on one peer leaves the request handlers of every other
\* peer, and the Server's own table, as they were.
C25_NoSharedHandlers ==
    [][\A p \in Peers :
          Calls(p, "hook_request")
          => /\ \A q \in Peers \ {p} : hooks_request'[q] = hooks_request[q]
             /\ server'.hooks_request = server.hooks_request]_vars

\* ---------------------------------------------------------------- C29
\* The counters of the peers the Server has dropped, added up.
DroppedTotal(total) ==
    Updated(IF server.conn[1] = "dropped" THEN total[1] ELSE Counter,
            IF server.conn[2] = "dropped" THEN total[2] ELSE Counter)

\* C29: drop never fails for want of the peer in remotes; a peer is dropped
\* only after its loop has ended and is then out of remotes; and the
\* Server's totals are the sums of the counters of the peers it dropped.
C29_ServerBookkeeping ==
    /\ \A p \in Peers :
          /\ server.conn[p] # "KeyError"
          /\ server.conn[p] = "dropped"
             => lpc[p] = "done" /\ p \notin server.remotes
    /\ server.total_sent = DroppedTotal(total_sent)
    /\ server.total_recv = DroppedTotal(total_recv)

====
